---- MODULE Spec2Model ----
(***************************************************************************)
(* Streaming codec sessions of iconv-lite: UTF-32 LE/BE encoder and        *)
(* decoder, the UTF-32 auto decoder, the CESU-8 decoder and the base64     *)
(* streaming encoder.  A session is created by Init with one input stream, *)
(* receives the stream in chunks chosen by the caller (write) and is       *)
(* terminated by end.  Bytes are 0..255, code units 0..65535.              *)
(***************************************************************************)
EXTENDS Integers, Sequences, FiniteSets, TLC

VARIABLES
    session,        \* which codec session object this behaviour drives
    input,          \* the whole input stream the caller will feed
    pos,            \* number of input elements passed to write so far
    out,            \* concatenation of everything write/end returned so far
    phase,          \* "open", "ended" (end returned), "failed" (a call threw)
    isLE,           \* Utf32Encoder.isLE / Utf32Decoder.isLE
    overflow,       \* Utf32Decoder.overflow
    highSurrogate,  \* Utf32Encoder.highSurrogate
    acc,            \* InternalDecoderCesu8.acc
    contBytes,      \* InternalDecoderCesu8.contBytes
    accBytes,       \* InternalDecoderCesu8.accBytes
    prevStr,        \* InternalEncoderBase64.prevStr
    decoder,        \* Utf32AutoDecoder.decoder ("null" until chosen)
    initialBufs,    \* Utf32AutoDecoder.initialBufs
    initialBufsLen, \* Utf32AutoDecoder.initialBufsLen
    defaultEncoding,\* Utf32AutoDecoder.options.defaultEncoding ("" = not supplied)
    counters,       \* the counters of detectEncoding after its loop
    aligned,        \* history: every chunk written so far had a length divisible by 4
    carried         \* history: some write returned with hasState true

vars == << session, input, pos, out, phase, isLE, overflow, highSurrogate,
           acc, contBytes, accBytes, prevStr, decoder, initialBufs,
           initialBufsLen, defaultEncoding, counters, aligned, carried >>

----------------------------------------------------------------------------
\* Bounds of the model.

MaxUtf32Bytes == 5      \* longest byte stream given to a UTF-32 LE/BE decoder
MaxUnits == 4           \* longest code-unit stream given to the UTF-32 encoder
MaxCesu8Bytes == 4      \* longest byte stream given to the CESU-8 decoder
MaxB64Len == 6          \* longest base64 text given to the base64 encoder
MaxGroups == 9          \* longest stream (in 4-byte groups) given to the auto decoder
MaxCesu8Units == 3      \* longest code-unit stream given to the CESU-8 encoder
MaxDetectExtra == 2     \* groups that follow the leading run in a detection input
MaxDetectBufs == 3      \* most buffers a detection input is split into

\* Alphabets the input streams are drawn from.
Utf32Bytes == {0, 1, 216, 255}                 \* 00, 01, D8, FF
Utf16Units == {65, 55296, 56320}               \* 'A', D800 (high), DC00 (low)
Cesu8Bytes == {65, 128, 160, 192, 194, 224, 237, 240}
                                               \* 41 80 A0 C0 C2 E0 ED F0
Cesu8Units == {0, 127, 128, 2047, 2048, 55357, 56489, 65533}
                                               \* 0 7F 80 7FF 800 D83D DCA9 FFFD

SeqsUpTo(S, n) == UNION { [1..k -> S] : k \in 0..n }

Min(a, b) == IF a < b THEN a ELSE b

RECURSIVE Flatten(_)
Flatten(ss) == IF ss = << >> THEN << >> ELSE Head(ss) \o Flatten(Tail(ss))

----------------------------------------------------------------------------
\* UTF-32 LE/BE decoder (src/encodings/utf32.js).

BadChar == 65533        \* codec.iconv.defaultCharUnicode.charCodeAt(0), U+FFFD

\* JS array/buffer read used inside a bitwise expression: an index outside the
\* array reads undefined, which | and << turn into 0.  k is a 0-based index.
ReadByte(a, k) == IF k >= 0 /\ k < Len(a) THEN a[k + 1] ELSE 0

\* the codepoint assembly with the two byte orders exchanged
ReadCodepoint_Swapped(le, a, i) ==
    LET lo  == IF ~le THEN ReadByte(a, i) ELSE ReadByte(a, i + 3)
        m1  == IF ~le THEN ReadByte(a, i + 1) ELSE ReadByte(a, i + 2)
        m2  == IF ~le THEN ReadByte(a, i + 2) ELSE ReadByte(a, i + 1)
        hi  == IF ~le THEN ReadByte(a, i + 3) ELSE ReadByte(a, i)
        top == IF hi >= 128 THEN hi - 256 ELSE hi
    IN  top * 16777216 + m2 * 65536 + m1 * 256 + lo

\* a[i] | a[i+1]<<8 | a[i+2]<<16 | a[i+3]<<24 (LE; mirrored for BE), as the
\* signed 32-bit integer the JS bitwise operators produce.
ReadCodepoint(le, a, i) ==
    LET lo  == IF le THEN ReadByte(a, i) ELSE ReadByte(a, i + 3)
        m1  == IF le THEN ReadByte(a, i + 1) ELSE ReadByte(a, i + 2)
        m2  == IF le THEN ReadByte(a, i + 2) ELSE ReadByte(a, i + 1)
        hi  == IF le THEN ReadByte(a, i + 3) ELSE ReadByte(a, i)
        \* << 24 of a byte with its top bit set gives a negative int32
        top == IF hi >= 128 THEN hi - 256 ELSE hi
    IN  top * 16777216 + m2 * 65536 + m1 * 256 + lo

\* _writeCodepoint without the write of the high surrogate
WriteCodepoint_NoHigh(codepoint, badChar) ==
    LET cp == IF codepoint < 0 \/ codepoint > 1114111 THEN badChar ELSE codepoint
    IN  IF cp >= 65536
        THEN << 56320 + ((cp - 65536) % 1024) >>
        ELSE << cp >>

\* _writeCodepoint: the code units appended to dst for one code point.
WriteCodepoint(codepoint, badChar) ==
    LET cp == IF codepoint < 0 \/ codepoint > 1114111 THEN badChar ELSE codepoint
    IN  IF cp >= 65536
        THEN << 55296 + ((cp - 65536) \div 1024), 56320 + ((cp - 65536) % 1024) >>
        ELSE << cp >>

RECURSIVE MainLoop_SkipBad(_, _, _, _)
\* the main loop writing nothing for a value outside 0..0x10FFFF
MainLoop_SkipBad(le, src, i, res) ==
    IF i < Len(src) - 3
    THEN LET cp == ReadCodepoint(le, src, i)
         IN  MainLoop_SkipBad(le, src, i + 4,
                 IF cp < 0 \/ cp > 1114111 THEN res
                 ELSE res \o WriteCodepoint(cp, BadChar))
    ELSE [i |-> i, res |-> res]

RECURSIVE MainLoop(_, _, _, _)
\* for (; i < src.length - 3; i += 4) offset = _writeCodepoint(...)
MainLoop(le, src, i, res) ==
    IF i < Len(src) - 3
    THEN MainLoop(le, src, i + 4, res \o WriteCodepoint(ReadCodepoint(le, src, i), BadChar))
    ELSE [i |-> i, res |-> res]

\* write keeping no bytes for the next write
Utf32Decoder_write_NoKeep(le, ov, src) ==
    LET m == MainLoop(le, src, 0, << >>)
    IN  [overflow |-> << >>, res |-> m.res, calls |-> m.i \div 4]

\* Utf32Decoder.write: the new overflow buffer and the returned code units.
Utf32Decoder_write(le, ov, src) ==
    IF Len(src) = 0 THEN [overflow |-> ov, res |-> << >>, calls |-> 0]
    ELSE
      LET i0    == IF Len(ov) > 0 THEN Min(Len(src), 4 - Len(ov)) ELSE 0
          ov1   == ov \o SubSeq(src, 1, i0)
          full  == Len(ov) > 0 /\ Len(ov1) = 4
          \* the copied block indexes overflow with i, the count of bytes just
          \* taken from src, as the source does
          first == IF full THEN WriteCodepoint(ReadCodepoint(le, ov1, i0), BadChar)
                           ELSE << >>
          ov2   == IF full THEN << >> ELSE ov1
          m     == MainLoop(le, src, i0, first)
      IN  [overflow |-> ov2 \o SubSeq(src, m.i + 1, Len(src)), res |-> m.res,
           \* the number of calls of _writeCodepoint, each writing one code point
           calls |-> (IF full THEN 1 ELSE 0) + ((m.i - i0) \div 4)]

\* Utf32Decoder.hasState
Utf32Decoder_hasState == Len(overflow) > 0

\* The result of one write of the whole stream followed by end() on a fresh decoder.
Utf32DecodeWhole(le, src) == Utf32Decoder_write(le, << >>, src).res

----------------------------------------------------------------------------
\* UTF-32 LE/BE encoder (src/encodings/utf32.js).

isHighSurrogate(code) == 55296 <= code /\ code < 56320
isLowSurrogate(code) == 56320 <= code /\ code < 57344

\* write32 that is writeUInt32LE whatever this.isLE
Write32_AlwaysLE(le, v) ==
    << v % 256, (v \div 256) % 256, (v \div 65536) % 256, (v \div 16777216) % 256 >>

\* dst.writeUInt32LE / dst.writeUInt32BE: the four bytes of value v.
Write32(le, v) ==
    LET b0 == v % 256
        b1 == (v \div 256) % 256
        b2 == (v \div 65536) % 256
        b3 == (v \div 16777216) % 256
    IN  IF le THEN << b0, b1, b2, b3 >> ELSE << b3, b2, b1, b0 >>

RECURSIVE EncodeLoop(_, _, _, _, _, _)
\* The for loop of Utf32Encoder.write over code units src[i..], with dst of
\* dstLen bytes; a write32 beyond dst throws a RangeError (threw = TRUE) and
\* leaves this.highSurrogate as it was at that point.
EncodeLoop(le, src, i, hs, dst, dstLen) ==
    IF i > Len(src) THEN [highSurrogate |-> hs, res |-> dst, threw |-> FALSE]
    ELSE
      LET code == src[i] IN
      IF hs # 0 /\ ~(isHighSurrogate(code) \/ ~isLowSurrogate(code))
      THEN \* pair completed
           IF Len(dst) + 4 > dstLen
           THEN [highSurrogate |-> hs, res |-> dst, threw |-> TRUE]
           ELSE EncodeLoop(le, src, i + 1, 0,
                    dst \o Write32(le, (((hs - 55296) * 1024) + (code - 56320)) + 65536),
                    dstLen)
      ELSE
        LET lone == hs # 0      \* pending high surrogate written stand-alone
            dst1 == IF lone THEN dst \o Write32(le, hs) ELSE dst
        IN  IF lone /\ Len(dst) + 4 > dstLen
            THEN [highSurrogate |-> hs, res |-> dst, threw |-> TRUE]
            ELSE IF isHighSurrogate(code)
                 THEN EncodeLoop(le, src, i + 1, code, dst1, dstLen)
                 ELSE IF Len(dst1) + 4 > dstLen
                      THEN [highSurrogate |-> hs, res |-> dst1, threw |-> TRUE]
                      ELSE EncodeLoop(le, src, i + 1, 0, dst1 \o Write32(le, code), dstLen)

\* Utf32Encoder.write: dst = Buffer.alloc(src.length * 2), 4 bytes per code unit.
Utf32Encoder_write(le, hs, str) == EncodeLoop(le, str, 1, hs, << >>, 4 * Len(str))

RECURSIVE ByteLengthLoop(_, _, _, _)
\* The for loop of Utf32Encoder.byteLength over code units str[i..] and the
\* test after it; chs is currentHighSurrogate.
ByteLengthLoop(str, i, chs, byteLength) ==
    IF i > Len(str) THEN (IF chs # 0 THEN byteLength + 4 ELSE byteLength)
    ELSE
      LET code == str[i] IN
      IF chs # 0 /\ ~(isHighSurrogate(code) \/ ~isLowSurrogate(code))
      THEN ByteLengthLoop(str, i + 1, 0, byteLength + 4)
      ELSE
        LET bl1 == IF chs # 0 THEN byteLength + 4 ELSE byteLength
        IN  IF isHighSurrogate(code)
            THEN ByteLengthLoop(str, i + 1, code, bl1)
            ELSE ByteLengthLoop(str, i + 1, 0, bl1 + 4)

\* Utf32Encoder.byteLength: reads no field of the encoder.
Utf32Encoder_byteLength(str) == ByteLengthLoop(str, 1, 0, 0)

\* Utf32Encoder.end: the bytes returned (undefined is the empty output).
Utf32Encoder_end(le, hs) ==
    [highSurrogate |-> 0, res |-> IF hs = 0 THEN << >> ELSE Write32(le, hs)]

\* Utf32Encoder.hasState
Utf32Encoder_hasState == highSurrogate # 0

\* One write of the whole text followed by end() on a fresh encoder.
Utf32EncodeWhole(le, str) ==
    LET w == Utf32Encoder_write(le, 0, str)
    IN  w.res \o Utf32Encoder_end(le, w.highSurrogate).res

----------------------------------------------------------------------------
\* CESU-8 decoder (InternalDecoderCesu8).

DefaultCharUnicode == << BadChar >>     \* codec.defaultCharUnicode, one code unit

\* the loop body with the overlong test of a two-byte sequence not sparing C0 80
Cesu8Byte_NoNul(s, curByte) ==
    IF (curByte \div 64) % 4 # 2
    THEN \* leading byte
      LET res1 == IF s.contBytes > 0 THEN s.res \o DefaultCharUnicode ELSE s.res
          s1   == [s EXCEPT !.res = res1, !.contBytes = 0]
      IN  IF curByte < 128 THEN [s1 EXCEPT !.res = res1 \o << curByte >>]
          ELSE IF curByte < 224
               THEN [s1 EXCEPT !.acc = curByte % 32, !.contBytes = 1, !.accBytes = 1]
          ELSE IF curByte < 240
               THEN [s1 EXCEPT !.acc = curByte % 16, !.contBytes = 2, !.accBytes = 1]
          ELSE [s1 EXCEPT !.res = res1 \o DefaultCharUnicode]
    ELSE \* continuation byte
      IF s.contBytes > 0
      THEN LET a  == s.acc * 64 + (curByte % 64)
               cb == s.contBytes - 1
               ab == s.accBytes + 1
               s1 == [s EXCEPT !.acc = a, !.contBytes = cb, !.accBytes = ab]
           IN  IF cb = 0
               THEN IF ab = 2 /\ a < 128
                    THEN [s1 EXCEPT !.res = s.res \o DefaultCharUnicode]
                    ELSE IF ab = 3 /\ a < 2048
                         THEN [s1 EXCEPT !.res = s.res \o DefaultCharUnicode]
                         ELSE [s1 EXCEPT !.res = s.res \o << a % 65536 >>]
               ELSE s1
      ELSE [s EXCEPT !.res = s.res \o DefaultCharUnicode]

\* The body of the for loop of InternalDecoderCesu8.write for one byte;
\* s carries the locals acc, contBytes, accBytes and res.
Cesu8Byte(s, curByte) ==
    IF (curByte \div 64) % 4 # 2
    THEN \* leading byte
      LET res1 == IF s.contBytes > 0 THEN s.res \o DefaultCharUnicode ELSE s.res
          s1   == [s EXCEPT !.res = res1, !.contBytes = 0]
      IN  IF curByte < 128 THEN [s1 EXCEPT !.res = res1 \o << curByte >>]
          ELSE IF curByte < 224
               THEN [s1 EXCEPT !.acc = curByte % 32, !.contBytes = 1, !.accBytes = 1]
          ELSE IF curByte < 240
               THEN [s1 EXCEPT !.acc = curByte % 16, !.contBytes = 2, !.accBytes = 1]
          ELSE [s1 EXCEPT !.res = res1 \o DefaultCharUnicode]
    ELSE \* continuation byte
      IF s.contBytes > 0
      THEN LET a  == s.acc * 64 + (curByte % 64)
               cb == s.contBytes - 1
               ab == s.accBytes + 1
               s1 == [s EXCEPT !.acc = a, !.contBytes = cb, !.accBytes = ab]
           IN  IF cb = 0
               THEN IF ab = 2 /\ a < 128 /\ a > 0
                    THEN [s1 EXCEPT !.res = s.res \o DefaultCharUnicode]
                    ELSE IF ab = 3 /\ a < 2048
                         THEN [s1 EXCEPT !.res = s.res \o DefaultCharUnicode]
                         ELSE [s1 EXCEPT !.res = s.res \o << a % 65536 >>]
               ELSE s1
      ELSE [s EXCEPT !.res = s.res \o DefaultCharUnicode]

RECURSIVE Cesu8Loop(_, _, _)
Cesu8Loop(s, buf, i) ==
    IF i > Len(buf) THEN s ELSE Cesu8Loop(Cesu8Byte(s, buf[i]), buf, i + 1)

\* write with its locals started from zero instead of from this.acc,
\* this.contBytes, this.accBytes
InternalDecoderCesu8_write_NoCarry(a, cb, ab, buf) ==
    Cesu8Loop([acc |-> 0, contBytes |-> 0, accBytes |-> 0, res |-> << >>], buf, 1)

\* InternalDecoderCesu8.write: the new acc, contBytes, accBytes and the result.
InternalDecoderCesu8_write(a, cb, ab, buf) ==
    Cesu8Loop([acc |-> a, contBytes |-> cb, accBytes |-> ab, res |-> << >>], buf, 1)

\* end returning nothing whatever is pending
InternalDecoderCesu8_end_Silent(cb) == << >>

\* InternalDecoderCesu8.end: returns the trailing output, assigns no field.
InternalDecoderCesu8_end(cb) == IF cb > 0 THEN DefaultCharUnicode ELSE << >>

\* InternalDecoderCesu8.hasState
InternalDecoderCesu8_hasState == contBytes > 0

\* One write of the whole stream followed by end() on a fresh decoder.
Cesu8DecodeWhole(buf) ==
    LET w == InternalDecoderCesu8_write(0, 0, 0, buf)
    IN  w.res \o InternalDecoderCesu8_end(w.contBytes)

----------------------------------------------------------------------------
\* CESU-8 encoder (InternalEncoderCesu8).

\* the loop body with charCode <= 0x800 as the two-byte test
Cesu8EncodeUnit_Off(charCode) ==
    IF charCode < 128 THEN << charCode >>
    ELSE IF charCode <= 2048
         THEN << 192 + (charCode \div 64), 128 + (charCode % 64) >>
         ELSE << 224 + (charCode \div 4096), 128 + ((charCode \div 64) % 64),
                 128 + (charCode % 64) >>

\* The body of the for loop of InternalEncoderCesu8.write: the bytes stored
\* in buf for one code unit.
Cesu8EncodeUnit(charCode) ==
    IF charCode < 128 THEN << charCode >>
    ELSE IF charCode < 2048
         THEN << 192 + (charCode \div 64), 128 + (charCode % 64) >>
         ELSE << 224 + (charCode \div 4096), 128 + ((charCode \div 64) % 64),
                 128 + (charCode % 64) >>

RECURSIVE InternalEncoderCesu8_write(_)
\* InternalEncoderCesu8.write; buf has 3 bytes per code unit, which no code
\* unit exceeds.
InternalEncoderCesu8_write(str) ==
    IF str = << >> THEN << >>
    ELSE Cesu8EncodeUnit(Head(str)) \o InternalEncoderCesu8_write(Tail(str))

RECURSIVE InternalEncoderCesu8_byteLength(_)
\* InternalEncoderCesu8.byteLength
InternalEncoderCesu8_byteLength(str) ==
    IF str = << >> THEN 0
    ELSE (IF Head(str) < 128 THEN 1 ELSE IF Head(str) < 2048 THEN 2 ELSE 3)
         + InternalEncoderCesu8_byteLength(Tail(str))

----------------------------------------------------------------------------
\* base64 streaming encoder (InternalEncoderBase64).  A base64 character is
\* its 6-bit value 0..63; Pad is '='.

Pad == 64
Base64Chars == {16, 63, Pad}            \* 'Q', '/', '='

RECURSIVE UpToPad(_)
\* the characters before the first '=': the host decoder stops at '='
UpToPad(str) ==
    IF str = << >> \/ Head(str) = Pad THEN << >> ELSE << Head(str) >> \o UpToPad(Tail(str))

RECURSIVE DecodeSextets(_)
\* 4 characters give 3 bytes; a tail of 3 gives 2 bytes, of 2 gives 1, of 1 none
DecodeSextets(v) ==
    IF Len(v) < 2 THEN << >>
    ELSE LET b0 == v[1] * 4 + (v[2] \div 16)
         IN  IF Len(v) = 2 THEN << b0 >>
             ELSE LET b1 == (v[2] % 16) * 16 + (v[3] \div 4)
                  IN  IF Len(v) = 3 THEN << b0, b1 >>
                      ELSE << b0, b1, (v[3] % 4) * 64 + v[4] >>
                           \o DecodeSextets(SubSeq(v, 5, Len(v)))

\* Buffer.from(str, "base64")
BufferFromBase64(str) == DecodeSextets(UpToPad(str))

\* write without this.prevStr prepended to str
InternalEncoderBase64_write_NoPrev(prev, chunk) ==
    LET str == chunk
        completeQuads == Len(str) - (Len(str) % 4)
    IN  [prevStr |-> SubSeq(str, completeQuads + 1, Len(str)),
         res |-> BufferFromBase64(SubSeq(str, 1, completeQuads))]

\* InternalEncoderBase64.write
InternalEncoderBase64_write(prev, chunk) ==
    LET str == prev \o chunk
        completeQuads == Len(str) - (Len(str) % 4)
    IN  [prevStr |-> SubSeq(str, completeQuads + 1, Len(str)),
         res |-> BufferFromBase64(SubSeq(str, 1, completeQuads))]

RECURSIVE SearchPadRun(_)
\* str.search(/=*$/): the 0-based index at which the run of '=' that ends the
\* string starts; the length of the string if it does not end in '='.
SearchPadRun(str) ==
    IF str = << >> \/ str[Len(str)] # Pad THEN Len(str)
    ELSE SearchPadRun(SubSeq(str, 1, Len(str) - 1))

\* InternalEncoderBase64.byteLength: reads no field of the encoder.
InternalEncoderBase64_byteLength(str0) ==
    LET completeQuads == Len(str0) - (Len(str0) % 4)
        prev  == SubSeq(str0, completeQuads + 1, Len(str0))
        str   == SubSeq(str0, 1, completeQuads)
        s1    == SearchPadRun(str)
        np1   == IF s1 = -1 THEN Len(str) ELSE s1
        s2    == SearchPadRun(prev)
        np2   == IF s2 = -1 THEN Len(str) ELSE s2
    IN  ((np1 * 3) \div 4) + ((np2 * 3) \div 4)

\* InternalEncoderBase64.end: returns the decoded tail, assigns no field.
InternalEncoderBase64_end(prev) == BufferFromBase64(prev)

\* InternalEncoderBase64.hasState
InternalEncoderBase64_hasState == Len(prevStr) > 0

----------------------------------------------------------------------------
\* UTF-32 auto decoder (Utf32AutoDecoder, detectEncoding).

DetectCap == 100        \* the groups detectEncoding looks at (charsProcessed >= 100)

\* the loop body counting a second byte of 0x10 as invalid as well
DetectGroup_Tight(b, k, c) ==
    LET b0 == b[4 * k + 1]
        b1 == b[4 * k + 2]
        b2 == b[4 * k + 3]
        b3 == b[4 * k + 4]
    IN  IF k = 0 /\ b0 = 255 /\ b1 = 254 /\ b2 = 0 /\ b3 = 0
        THEN [c EXCEPT !.bom = "utf-32le"]
        ELSE IF k = 0 /\ b0 = 0 /\ b1 = 0 /\ b2 = 254 /\ b3 = 255
        THEN [c EXCEPT !.bom = "utf-32be"]
        ELSE [c EXCEPT
                !.invalidBE = @ + (IF b0 # 0 \/ b1 >= 16 THEN 1 ELSE 0),
                !.invalidLE = @ + (IF b3 # 0 \/ b2 >= 16 THEN 1 ELSE 0),
                !.bmpCharsBE = @ + (IF b0 = 0 /\ b1 = 0 /\ (b2 # 0 \/ b3 # 0) THEN 1 ELSE 0),
                !.bmpCharsLE = @ + (IF (b0 # 0 \/ b1 # 0) /\ b2 = 0 /\ b3 = 0 THEN 1 ELSE 0)]

\* The body of the loop of detectEncoding for group k (0-based) of the bytes b
\* of all buffers, regrouped in fours; c holds the four counters and the
\* encoding a leading BOM group returns at once.
DetectGroup(b, k, c) ==
    LET b0 == b[4 * k + 1]
        b1 == b[4 * k + 2]
        b2 == b[4 * k + 3]
        b3 == b[4 * k + 4]
    IN  IF k = 0 /\ b0 = 255 /\ b1 = 254 /\ b2 = 0 /\ b3 = 0
        THEN [c EXCEPT !.bom = "utf-32le"]
        ELSE IF k = 0 /\ b0 = 0 /\ b1 = 0 /\ b2 = 254 /\ b3 = 255
        THEN [c EXCEPT !.bom = "utf-32be"]
        ELSE [c EXCEPT
                !.invalidBE = @ + (IF b0 # 0 \/ b1 > 16 THEN 1 ELSE 0),
                !.invalidLE = @ + (IF b3 # 0 \/ b2 > 16 THEN 1 ELSE 0),
                !.bmpCharsBE = @ + (IF b0 = 0 /\ b1 = 0 /\ (b2 # 0 \/ b3 # 0) THEN 1 ELSE 0),
                !.bmpCharsLE = @ + (IF (b0 # 0 \/ b1 # 0) /\ b2 = 0 /\ b3 = 0 THEN 1 ELSE 0)]

\* The loop is evaluated in blocks of DetectStride groups, which keeps the
\* nesting of the evaluation shallow; DetectCap is a multiple of it.
DetectStride == 10

RECURSIVE DetectBlock(_, _, _, _)
\* the iterations for the complete groups k .. kEnd - 1
DetectBlock(b, k, kEnd, c) ==
    IF c.bom # "" \/ k >= kEnd \/ 4 * k + 4 > Len(b) THEN c
    ELSE DetectBlock(b, k + 1, kEnd, DetectGroup(b, k, c))

RECURSIVE DetectLoop_NoCap(_, _, _)
\* the group loop without the break at charsProcessed >= 100
DetectLoop_NoCap(b, k, c) ==
    IF c.bom # "" \/ 4 * k + 4 > Len(b) THEN c
    ELSE DetectLoop_NoCap(b, k + DetectStride, DetectBlock(b, k, k + DetectStride, c))

RECURSIVE DetectLoop(_, _, _)
\* The group loop of detectEncoding from group k on; k is charsProcessed.  It
\* stops at a leading BOM group, after 100 groups and at the last complete group.
DetectLoop(b, k, c) ==
    IF c.bom # "" \/ k >= DetectCap \/ 4 * k + 4 > Len(b) THEN c
    ELSE DetectLoop(b, k + DetectStride, DetectBlock(b, k, k + DetectStride, c))

\* invalidLE, invalidBE, bmpCharsLE, bmpCharsBE as detectEncoding declares
\* them; bom is the encoding a leading BOM group returns, "" for none
NoCounts ==
    [bom |-> "", invalidLE |-> 0, invalidBE |-> 0, bmpCharsLE |-> 0, bmpCharsBE |-> 0]

\* detectEncoding(bufs, defaultEncoding); "" is an absent defaultEncoding.
detectEncoding(bufs, dflt) ==
    LET c == DetectLoop(Flatten(bufs), 0,
                 [bom |-> "", invalidLE |-> 0, invalidBE |-> 0,
                  bmpCharsLE |-> 0, bmpCharsBE |-> 0])
    IN  IF c.bom # "" THEN c.bom
        ELSE IF c.bmpCharsBE - c.invalidBE > c.bmpCharsLE - c.invalidLE THEN "utf-32be"
        ELSE IF c.bmpCharsBE - c.invalidBE < c.bmpCharsLE - c.invalidLE THEN "utf-32le"
        ELSE IF dflt # "" THEN dflt ELSE "utf-32le"

\* this.iconv.getDecoder(encoding, options): the isLE flag of the Utf32Decoder
\* the host returns for the encoding name.
getDecoderIsLE(encoding) == encoding = "utf-32le"

RECURSIVE Replay_Reversed(_, _, _, _, _)
\* the replay taking the buffered chunks from the last received to the first
Replay_Reversed(le, bufs, i, ov, resStr) ==
    IF i > Len(bufs) THEN [overflow |-> ov, res |-> resStr]
    ELSE LET w == Utf32Decoder_write(le, ov, bufs[Len(bufs) + 1 - i])
         IN  Replay_Reversed(le, bufs, i + 1, w.overflow, resStr \o w.res)

RECURSIVE Replay(_, _, _, _, _)
\* for (i...) resStr += this.decoder.write(this.initialBufs[i])
Replay(le, bufs, i, ov, resStr) ==
    IF i > Len(bufs) THEN [overflow |-> ov, res |-> resStr]
    ELSE LET w == Utf32Decoder_write(le, ov, bufs[i])
         IN  Replay(le, bufs, i + 1, w.overflow, resStr \o w.res)

\* write that runs detectEncoding on the chunk just received only
Utf32AutoDecoder_write_DetectLast(dec, bufs, bufsLen, ov, dflt, buf) ==
    IF dec = "null"
    THEN LET bufs1 == Append(bufs, buf)
             len1  == bufsLen + Len(buf)
         IN  IF len1 < 32
             THEN [decoder |-> dec, initialBufs |-> bufs1, initialBufsLen |-> len1,
                   overflow |-> ov, res |-> << >>]
             ELSE LET encoding == detectEncoding(<< buf >>, dflt)
                      r == Replay(getDecoderIsLE(encoding), bufs1, 1, << >>, << >>)
                  IN  [decoder |-> encoding, initialBufs |-> << >>, initialBufsLen |-> 0,
                       overflow |-> r.overflow, res |-> r.res]
    ELSE LET w == Utf32Decoder_write(getDecoderIsLE(dec), ov, buf)
         IN  [decoder |-> dec, initialBufs |-> bufs, initialBufsLen |-> bufsLen,
              overflow |-> w.overflow, res |-> w.res]

\* Utf32AutoDecoder.write: the fields after the call and the returned text.
Utf32AutoDecoder_write(dec, bufs, bufsLen, ov, dflt, buf) ==
    IF dec = "null"
    THEN LET bufs1 == Append(bufs, buf)
             len1  == bufsLen + Len(buf)
         IN  IF len1 < 32
             THEN [decoder |-> dec, initialBufs |-> bufs1, initialBufsLen |-> len1,
                   overflow |-> ov, res |-> << >>]
             ELSE LET encoding == detectEncoding(bufs1, dflt)
                      r == Replay(getDecoderIsLE(encoding), bufs1, 1, << >>, << >>)
                  IN  [decoder |-> encoding, initialBufs |-> << >>, initialBufsLen |-> 0,
                       overflow |-> r.overflow, res |-> r.res]
    ELSE LET w == Utf32Decoder_write(getDecoderIsLE(dec), ov, buf)
         IN  [decoder |-> dec, initialBufs |-> bufs, initialBufsLen |-> bufsLen,
              overflow |-> w.overflow, res |-> w.res]

\* Utf32AutoDecoder.end; the delegate's end() empties its overflow and returns nothing.
Utf32AutoDecoder_end(dec, bufs, bufsLen, ov, dflt) ==
    IF dec = "null"
    THEN LET encoding == detectEncoding(bufs, dflt)
             r == Replay(getDecoderIsLE(encoding), bufs, 1, << >>, << >>)
         IN  [decoder |-> encoding, initialBufs |-> << >>, initialBufsLen |-> 0,
              overflow |-> << >>, res |-> r.res]
    ELSE [decoder |-> dec, initialBufs |-> bufs, initialBufsLen |-> bufsLen,
          overflow |-> << >>, res |-> << >>]

\* Utf32AutoDecoder.hasState
Utf32AutoDecoder_hasState ==
    initialBufsLen # 0 \/ (decoder # "null" /\ Len(overflow) > 0)

----------------------------------------------------------------------------
\* Sessions and their input streams.

\* 4-byte groups the auto decoder's streams are made of:
\* zero, U+0041 little-endian, U+0041 big-endian.
AutoGroups == { << 0, 0, 0, 0 >>, << 65, 0, 0, 0 >>, << 0, 0, 0, 65 >> }

\* Chunk lengths the caller of the auto decoder writes (besides the whole rest).
AutoChunkLens == {4, 30, 32}

RECURSIVE Repeat(_, _)
Repeat(g, n) == IF n = 0 THEN << >> ELSE g \o Repeat(g, n - 1)

\* a run of one group, then at most one other group; at most MaxGroups groups
AutoInputs ==
    UNION { { Repeat(g1, a) \o Repeat(g2, b) : g1 \in AutoGroups, g2 \in AutoGroups } :
            a \in 0..MaxGroups, b \in 0..1 }

\* the CESU-8 scenario stream ED A0 BD ED B2 A9 of the specification
Cesu8Scenario == << 237, 160, 189, 237, 178, 169 >>

\* the UTF-32 scenario stream FF FE 00 00 41 00 00 00 42 00 00 00 of the specification
Utf32Scenario == << 255, 254, 0, 0, 65, 0, 0, 0, 66, 0, 0, 0 >>

\* the four-byte UTF-8 sequence F0 9F 92 A9 of the specification
Cesu8FourByteScenario == << 240, 159, 146, 169 >>

InputsOf(s) ==
    CASE s = "utf32dec"  -> SeqsUpTo(Utf32Bytes, MaxUtf32Bytes) \cup {Utf32Scenario}
      [] s = "utf32enc"  -> SeqsUpTo(Utf16Units, MaxUnits)
      [] s = "cesu8dec"  -> SeqsUpTo(Cesu8Bytes, MaxCesu8Bytes)
                              \cup {Cesu8Scenario, Cesu8FourByteScenario}
      [] s = "cesu8enc"  -> SeqsUpTo(Cesu8Units, MaxCesu8Units)
      [] s = "base64enc" -> SeqsUpTo(Base64Chars, MaxB64Len)
      [] s = "utf32auto" -> { x \in AutoInputs : Len(x) <= 4 * MaxGroups }

Sessions == {"utf32dec", "utf32enc", "cesu8dec", "cesu8enc", "base64enc", "utf32auto"}

\* The state right after the constructors.
Init ==
    /\ session \in Sessions
    /\ input \in InputsOf(session)
    /\ pos = 0
    /\ out = << >>
    /\ phase = "open"
    /\ isLE \in (IF session \in {"utf32dec", "utf32enc"} THEN BOOLEAN ELSE {TRUE})
    /\ overflow = << >>
    /\ highSurrogate = 0
    /\ acc = 0
    /\ contBytes = 0
    /\ accBytes = 0
    /\ prevStr = << >>
    /\ decoder = "null"
    /\ initialBufs = << >>
    /\ initialBufsLen = 0
    /\ defaultEncoding \in (IF session = "utf32auto"
                            THEN {"", "utf-32le", "utf-32be"} ELSE {""})
    /\ counters = NoCounts
    /\ aligned = TRUE
    /\ carried = FALSE

Chunk(n) == SubSeq(input, pos + 1, pos + n)

Rest == Len(input) - pos

----------------------------------------------------------------------------
\* One action per call of the caller on the session.

WriteUtf32Decoder ==
    /\ session = "utf32dec" /\ phase = "open"
    /\ \E n \in 0..Rest :
         LET w == Utf32Decoder_write(isLE, overflow, Chunk(n))
         IN  /\ overflow' = w.overflow
             /\ out' = out \o w.res
             /\ pos' = pos + n
             /\ carried' = (carried \/ Len(w.overflow) > 0)
    /\ UNCHANGED << counters, session, input, phase, isLE, highSurrogate, acc, contBytes,
                    accBytes, prevStr, decoder, initialBufs, initialBufsLen,
                    defaultEncoding, aligned >>

\* Utf32Decoder.end: this.overflow.length = 0, returns undefined
EndUtf32Decoder ==
    /\ session = "utf32dec" /\ phase = "open" /\ Rest = 0
    /\ overflow' = << >>
    /\ phase' = "ended"
    /\ UNCHANGED << counters, session, input, pos, out, isLE, highSurrogate, acc, contBytes,
                    accBytes, prevStr, decoder, initialBufs, initialBufsLen,
                    defaultEncoding, aligned, carried >>

WriteUtf32Encoder ==
    /\ session = "utf32enc" /\ phase = "open"
    /\ \E n \in 0..Rest :
         LET w == Utf32Encoder_write(isLE, highSurrogate, Chunk(n))
         IN  /\ highSurrogate' = w.highSurrogate
             /\ pos' = pos + n
             /\ carried' = (carried \/ w.highSurrogate # 0)
             /\ IF w.threw
                THEN phase' = "failed" /\ out' = out
                ELSE phase' = phase /\ out' = out \o w.res
    /\ UNCHANGED << counters, session, input, isLE, overflow, acc, contBytes, accBytes,
                    prevStr, decoder, initialBufs, initialBufsLen,
                    defaultEncoding, aligned >>

EndUtf32Encoder ==
    /\ session = "utf32enc" /\ phase = "open" /\ Rest = 0
    /\ LET e == Utf32Encoder_end(isLE, highSurrogate)
       IN  /\ highSurrogate' = e.highSurrogate
           /\ out' = out \o e.res
    /\ phase' = "ended"
    /\ UNCHANGED << counters, session, input, pos, isLE, overflow, acc, contBytes, accBytes,
                    prevStr, decoder, initialBufs, initialBufsLen,
                    defaultEncoding, aligned, carried >>

WriteCesu8Decoder ==
    /\ session = "cesu8dec" /\ phase = "open"
    /\ \E n \in 0..Rest :
         LET w == InternalDecoderCesu8_write(acc, contBytes, accBytes, Chunk(n))
         IN  /\ acc' = w.acc
             /\ contBytes' = w.contBytes
             /\ accBytes' = w.accBytes
             /\ out' = out \o w.res
             /\ pos' = pos + n
             /\ carried' = (carried \/ w.contBytes > 0)
    /\ UNCHANGED << counters, session, input, phase, isLE, overflow, highSurrogate, prevStr,
                    decoder, initialBufs, initialBufsLen, defaultEncoding, aligned >>

EndCesu8Decoder ==
    /\ session = "cesu8dec" /\ phase = "open" /\ Rest = 0
    /\ out' = out \o InternalDecoderCesu8_end(contBytes)
    /\ phase' = "ended"
    /\ UNCHANGED << counters, session, input, pos, isLE, overflow, highSurrogate, acc,
                    contBytes, accBytes, prevStr, decoder, initialBufs,
                    initialBufsLen, defaultEncoding, aligned, carried >>

\* InternalEncoderCesu8.write; the encoder has no fields
WriteCesu8Encoder ==
    /\ session = "cesu8enc" /\ phase = "open"
    /\ \E n \in 0..Rest :
         /\ out' = out \o InternalEncoderCesu8_write(Chunk(n))
         /\ pos' = pos + n
    /\ UNCHANGED << counters, session, input, phase, isLE, overflow, highSurrogate, acc,
                    contBytes, accBytes, prevStr, decoder, initialBufs,
                    initialBufsLen, defaultEncoding, aligned, carried >>

\* InternalEncoderCesu8.end: end() {}
EndCesu8Encoder ==
    /\ session = "cesu8enc" /\ phase = "open" /\ Rest = 0
    /\ phase' = "ended"
    /\ UNCHANGED << counters, session, input, pos, out, isLE, overflow, highSurrogate, acc,
                    contBytes, accBytes, prevStr, decoder, initialBufs,
                    initialBufsLen, defaultEncoding, aligned, carried >>

WriteBase64Encoder ==
    /\ session = "base64enc" /\ phase = "open"
    /\ \E n \in 0..Rest :
         LET w == InternalEncoderBase64_write(prevStr, Chunk(n))
         IN  /\ prevStr' = w.prevStr
             /\ out' = out \o w.res
             /\ pos' = pos + n
             /\ carried' = (carried \/ Len(w.prevStr) > 0)
    /\ UNCHANGED << counters, session, input, phase, isLE, overflow, highSurrogate, acc,
                    contBytes, accBytes, decoder, initialBufs, initialBufsLen,
                    defaultEncoding, aligned >>

EndBase64Encoder ==
    /\ session = "base64enc" /\ phase = "open" /\ Rest = 0
    /\ out' = out \o InternalEncoderBase64_end(prevStr)
    /\ phase' = "ended"
    /\ UNCHANGED << counters, session, input, pos, isLE, overflow, highSurrogate, acc,
                    contBytes, accBytes, prevStr, decoder, initialBufs,
                    initialBufsLen, defaultEncoding, aligned, carried >>

WriteUtf32AutoDecoder ==
    /\ session = "utf32auto" /\ phase = "open"
    /\ \E n \in (AutoChunkLens \cup {Rest}) :
         /\ 1 <= n /\ n <= Rest
         /\ LET w == Utf32AutoDecoder_write(decoder, initialBufs, initialBufsLen,
                                            overflow, defaultEncoding, Chunk(n))
            IN  /\ decoder' = w.decoder
                /\ initialBufs' = w.initialBufs
                /\ initialBufsLen' = w.initialBufsLen
                /\ overflow' = w.overflow
                /\ out' = out \o w.res
         /\ pos' = pos + n
         /\ aligned' = (aligned /\ n % 4 = 0)
    /\ UNCHANGED << counters, session, input, phase, isLE, highSurrogate, acc, contBytes,
                    accBytes, prevStr, defaultEncoding, carried >>

EndUtf32AutoDecoder ==
    /\ session = "utf32auto" /\ phase = "open" /\ Rest = 0
    /\ LET e == Utf32AutoDecoder_end(decoder, initialBufs, initialBufsLen,
                                     overflow, defaultEncoding)
       IN  /\ decoder' = e.decoder
           /\ initialBufs' = e.initialBufs
           /\ initialBufsLen' = e.initialBufsLen
           /\ overflow' = e.overflow
           /\ out' = out \o e.res
    /\ phase' = "ended"
    /\ UNCHANGED << counters, session, input, pos, isLE, highSurrogate, acc, contBytes,
                    accBytes, prevStr, defaultEncoding, aligned, carried >>

Next ==
    \/ WriteUtf32Decoder
    \/ EndUtf32Decoder
    \/ WriteUtf32Encoder
    \/ EndUtf32Encoder
    \/ WriteCesu8Decoder
    \/ EndCesu8Decoder
    \/ WriteCesu8Encoder
    \/ EndCesu8Encoder
    \/ WriteBase64Encoder
    \/ EndBase64Encoder
    \/ WriteUtf32AutoDecoder
    \/ EndUtf32AutoDecoder

Spec == Init /\ [][Next]_vars

----------------------------------------------------------------------------
\* Properties.

----------------------------------------------------------------------------
\* detectEncoding on its own: a caller splits a byte stream into buffers and
\* calls detectEncoding(bufs, defaultEncoding) on them.

DetectGroups == { << 0, 0, 0, 0 >>, << 65, 0, 0, 0 >>, << 0, 0, 0, 65 >>,
                  << 255, 254, 0, 0 >>, << 0, 0, 254, 255 >>,
                  << 255, 255, 255, 255 >> }

\* a run of 0, 1, DetectCap - 1 or DetectCap equal groups, then up to
\* MaxDetectExtra groups, then a partial group of 0 or 3 bytes
DetectInputs ==
    { (Repeat(g, a) \o Flatten(e)) \o SubSeq(<< 65, 0, 0 >>, 1, t) :
        g \in AutoGroups, a \in {0, 1, DetectCap - 1, DetectCap},
        e \in SeqsUpTo(DetectGroups, MaxDetectExtra), t \in {0, 3} }

\* buffer lengths: 2 and 4 * DetectCap - 2 end inside a group
DetectChunkLens == {2, 4 * DetectCap - 2}

InitDetect ==
    /\ session = "detect"
    /\ input \in DetectInputs
    /\ pos = 0
    /\ out = << >>
    /\ phase = "open"
    /\ isLE = TRUE
    /\ overflow = << >>
    /\ highSurrogate = 0
    /\ acc = 0
    /\ contBytes = 0
    /\ accBytes = 0
    /\ prevStr = << >>
    /\ decoder = "null"
    /\ initialBufs = << >>
    /\ initialBufsLen = 0
    /\ defaultEncoding \in {"", "utf-32le", "utf-32be"}
    /\ counters = NoCounts
    /\ aligned = TRUE
    /\ carried = FALSE

\* the caller adds the next buffer to bufs
PushBuffer ==
    /\ session = "detect" /\ phase = "open" /\ Rest > 0
    /\ \E n \in (DetectChunkLens \cup {Rest}) :
         /\ 1 <= n /\ n <= Rest
         /\ n < Rest => Len(initialBufs) + 1 < MaxDetectBufs
         /\ initialBufs' = Append(initialBufs, Chunk(n))
         /\ initialBufsLen' = initialBufsLen + n
         /\ pos' = pos + n
         /\ aligned' = (aligned /\ n % 4 = 0)
    /\ UNCHANGED << counters, session, input, out, phase, isLE, overflow, highSurrogate, acc,
                    contBytes, accBytes, prevStr, decoder, defaultEncoding, carried >>

\* the call detectEncoding(bufs, defaultEncoding); decoder holds its result
CallDetectEncoding ==
    /\ session = "detect" /\ phase = "open" /\ Rest = 0
    /\ decoder' = detectEncoding(initialBufs, defaultEncoding)
    /\ phase' = "ended"
    /\ UNCHANGED << counters, session, input, pos, out, isLE, overflow, highSurrogate, acc,
                    contBytes, accBytes, prevStr, initialBufs, initialBufsLen,
                    defaultEncoding, aligned, carried >>

NextDetect ==
    \/ PushBuffer
    \/ CallDetectEncoding

SpecDetect == InitDetect /\ [][NextDetect]_vars

----------------------------------------------------------------------------
\* One 4-byte group given both to a UTF-32 decoder and to the detector.

GroupBytes == {0, 1, 16, 17, 127, 128, 255}     \* 00 01 10 11 7F 80 FF

InitGroup ==
    /\ session = "group"
    /\ input \in [1..4 -> GroupBytes]
    /\ pos = 0
    /\ out = << >>
    /\ phase = "open"
    /\ isLE \in BOOLEAN
    /\ overflow = << >>
    /\ highSurrogate = 0
    /\ acc = 0
    /\ contBytes = 0
    /\ accBytes = 0
    /\ prevStr = << >>
    /\ decoder = "null"
    /\ initialBufs = << >>
    /\ initialBufsLen = 0
    /\ defaultEncoding = ""
    /\ counters = NoCounts
    /\ aligned = TRUE
    /\ carried = FALSE

\* Utf32Decoder.write of the group on a fresh decoder
DecodeGroup ==
    /\ session = "group" /\ phase = "open" /\ pos = 0
    /\ LET w == Utf32Decoder_write(isLE, overflow, input)
       IN  overflow' = w.overflow /\ out' = out \o w.res
    /\ pos' = Len(input)
    /\ UNCHANGED << counters, session, input, phase, isLE, highSurrogate, acc,
                    contBytes, accBytes, prevStr, decoder, initialBufs,
                    initialBufsLen, defaultEncoding, aligned, carried >>

\* the loop of detectEncoding over the group
CountGroup ==
    /\ session = "group" /\ phase = "open" /\ pos = Len(input)
    /\ counters' = DetectLoop(input, 0, NoCounts)
    /\ phase' = "ended"
    /\ UNCHANGED << session, input, pos, out, isLE, overflow, highSurrogate, acc,
                    contBytes, accBytes, prevStr, decoder, initialBufs,
                    initialBufsLen, defaultEncoding, aligned, carried >>

NextGroup ==
    \/ DecodeGroup
    \/ CountGroup

SpecGroup == InitGroup /\ [][NextGroup]_vars

----------------------------------------------------------------------------
\* C1: chunk-invariance of the UTF-32 LE/BE decoder: after end(), the
\* concatenated output of the writes equals the output of one write of the
\* whole stream on a fresh decoder, for every partition of the stream.
C1_Utf32DecoderChunkInvariance ==
    (session = "utf32dec" /\ phase = "ended") => out = Utf32DecodeWhole(isLE, input)

\* C2: chunk-invariance of the UTF-32 LE/BE encoder: every session that has
\* stopped has stopped by end(), and the bytes returned by its writes and
\* end() equal the bytes of one write of the whole text followed by end().
C2_Utf32EncoderChunkInvariance ==
    (session = "utf32enc" /\ phase # "open")
        => (phase = "ended" /\ out = Utf32EncodeWhole(isLE, input))

\* C3: no write of the UTF-32 encoder emits more bytes than the buffer
\* allocated for it, so no write fails with an out-of-range error.
C3_Utf32EncoderNoOutOfRange ==
    session = "utf32enc" => phase # "failed"

\* C4: chunk-invariance of the CESU-8 decoder: after end(), the concatenated
\* output equals the output of one write of the whole stream followed by
\* end() on a fresh decoder, for every partition of the stream.
C4_Cesu8DecoderChunkInvariance ==
    (session = "cesu8dec" /\ phase = "ended") => out = Cesu8DecodeWhole(input)

\* [ED A0] then [BD ED B2 A9] (or any other split) has given D83D DCA9
C4_Witness ==
    /\ session = "cesu8dec" /\ phase = "ended" /\ carried
    /\ input = Cesu8Scenario
    /\ out = << 55357, 56489 >>

\* One write of the whole stream followed by end() on a fresh auto decoder:
\* the endianness selected and the concatenated output.
Utf32AutoDecodeWhole(dflt, src) ==
    LET w == Utf32AutoDecoder_write("null", << >>, 0, << >>, dflt, src)
        e == Utf32AutoDecoder_end(w.decoder, w.initialBufs, w.initialBufsLen,
                                  w.overflow, dflt)
    IN  [decoder |-> e.decoder, res |-> w.res \o e.res]

\* C5 as stated: over chunks whose lengths are multiples of 4, the endianness
\* selected and the concatenated output are those of the single-shot run.
C5_AutoChunkInvariance ==
    (session = "utf32auto" /\ phase = "ended" /\ aligned)
        => /\ decoder = Utf32AutoDecodeWhole(defaultEncoding, input).decoder
           /\ out = Utf32AutoDecodeWhole(defaultEncoding, input).res

\* the delegate is chosen in this step
AutoChooses == session = "utf32auto" /\ decoder = "null" /\ decoder' # "null"

\* C5 amended: over chunks whose lengths are multiples of 4, the delegate is
\* chosen by the first write that brings the bytes received to 32 or more (by
\* end() if there is none), the endianness selected is the one detectEncoding
\* returns for the bytes received up to then, and after end() the concatenated
\* output is that endianness's decoding of the whole stream.
C5_AutoChoiceAtThreshold ==
    /\ [][ (AutoChooses /\ aligned')
             => /\ pos < 32
                /\ pos' >= 32 \/ phase' = "ended"
                /\ decoder' = detectEncoding(<< SubSeq(input, 1, pos') >>, defaultEncoding) ]_vars
    /\ [] ( (session = "utf32auto" /\ phase = "ended" /\ aligned)
              => out = Utf32DecodeWhole(getDecoderIsLE(decoder), input) )

\* eight zero groups then 00 00 00 41, written as [32 bytes][4 bytes]: the
\* first write chose utf-32le on a tie, the whole stream scores utf-32be
C5_Witness ==
    /\ session = "utf32auto" /\ phase = "ended" /\ aligned
    /\ input = Repeat(<< 0, 0, 0, 0 >>, 8) \o << 0, 0, 0, 65 >>
    /\ defaultEncoding = ""
    /\ decoder = "utf-32le"
    /\ out = Repeat(<< 0 >>, 8) \o << BadChar >>

\* no '=' is followed by another character, at most two '=' end the text,
\* and a padded text has a length divisible by 4
ValidBase64(str) ==
    /\ \A i \in 1..Len(str) : \A j \in 1..Len(str) :
           (i < j /\ str[i] = Pad) => str[j] = Pad
    /\ Cardinality({i \in 1..Len(str) : str[i] = Pad}) <= 2
    /\ (\E i \in 1..Len(str) : str[i] = Pad) => Len(str) % 4 = 0

\* C6: chunk-invariance of the base64 streaming encoder on valid base64 text:
\* after every write the pending prefix is the last (pos mod 4) characters
\* received and the output so far is the decoding of the characters before
\* them; after end() the output is the single-shot decoding of the text.
C6_Base64ChunkInvariance ==
    (session = "base64enc" /\ ValidBase64(input))
        => /\ prevStr = SubSeq(input, pos - (pos % 4) + 1, pos)
           /\ phase = "open" => out = BufferFromBase64(SubSeq(input, 1, pos - (pos % 4)))
           /\ phase = "ended" => out = BufferFromBase64(input)

\* "QQQQQQ" written with a chunk boundary inside a quad, decoded to 4 bytes
C6_Witness ==
    /\ session = "base64enc" /\ phase = "ended" /\ carried
    /\ input = << 16, 16, 16, 16, 16, 16 >>
    /\ out = << 65, 4, 16, 65 >>

\* C7: after end() the CESU-8 decoder is in the empty state, hasState is false.
C7_Cesu8EndClearsState ==
    (session = "cesu8dec" /\ phase = "ended") => ~InternalDecoderCesu8_hasState

\* C8: after end() the base64 encoder's pending prefix is empty, hasState is false.
C8_Base64EndResetsPrefix ==
    (session = "base64enc" /\ phase = "ended") => ~InternalEncoderBase64_hasState

\* C9: state reporting of the UTF-32 decoder and encoder: hasState is false
\* after construction and after end(); after any writes the decoder's overflow
\* holds (bytes written mod 4) bytes and its hasState is true iff that is not
\* 0; the encoder's hasState is true iff the last code unit written is a
\* high surrogate.
C9_Utf32StateReporting ==
    /\ session = "utf32dec" =>
         /\ Len(overflow) <= 3
         /\ (pos = 0 \/ phase = "ended") => ~Utf32Decoder_hasState
         /\ phase # "ended" =>
              /\ Len(overflow) = pos % 4
              /\ Utf32Decoder_hasState <=> (pos % 4 # 0)
    /\ session = "utf32enc" =>
         /\ (pos = 0 \/ phase = "ended") => ~Utf32Encoder_hasState
         /\ (pos > 0 /\ phase # "ended") =>
              (Utf32Encoder_hasState <=> isHighSurrogate(input[pos]))

\* every high surrogate is followed by a low one, every low one preceded by a high one
WellFormedUtf16(u) ==
    \A i \in 1..Len(u) :
        /\ u[i] \in 0..65535
        /\ isHighSurrogate(u[i]) => (i < Len(u) /\ isLowSurrogate(u[i + 1]))
        /\ isLowSurrogate(u[i]) => (i > 1 /\ isHighSurrogate(u[i - 1]))

HasByteIn(src, lo, hi) == \E i \in 1..Len(src) : lo <= src[i] /\ src[i] <= hi

Scalars(u) == Cardinality({i \in 1..Len(u) : ~isLowSurrogate(u[i])})

\* C11: UTF-32 round trip in both endian variants: the bytes of a well-formed
\* text are one 4-byte group per scalar and decode, with the same endianness,
\* to the text; for any text (lone surrogates included) encoding the decoding
\* of the bytes gives the same bytes again.
C11_Utf32RoundTrip ==
    (session = "utf32enc" /\ phase = "ended") =>
        /\ WellFormedUtf16(input) =>
             /\ Len(out) = 4 * Scalars(input)
             /\ Utf32DecodeWhole(isLE, out) = input
        /\ Utf32EncodeWhole(isLE, Utf32DecodeWhole(isLE, out)) = out

\* 'A' and U+10000 encoded big-endian in one write, as two groups
C11_Witness ==
    /\ session = "utf32enc" /\ phase = "ended" /\ ~carried /\ ~isLE
    /\ input = << 65, 55296, 56320 >>
    /\ out = << 0, 0, 0, 65, 0, 1, 0, 0 >>


RECURSIVE Cesu8Sizes(_)
\* 1 byte below 0x80, 2 bytes below 0x800, 3 bytes otherwise, summed
Cesu8Sizes(u) ==
    IF u = << >> THEN 0
    ELSE (IF Head(u) < 128 THEN 1 ELSE IF Head(u) < 2048 THEN 2 ELSE 3)
         + Cesu8Sizes(Tail(u))

\* C12: CESU-8 round trip: the encoder emits 1, 2 or 3 bytes per code unit by
\* the ranges below 0x80, below 0x800, otherwise, and the CESU-8 decoder
\* returns the original code units from the encoder's bytes, with a
\* replacement character only where the text has U+FFFD itself.
C12_Cesu8RoundTrip ==
    (session = "cesu8enc" /\ phase = "ended") =>
        /\ Len(out) = Cesu8Sizes(input)
        /\ Cesu8DecodeWhole(out) = input

\* U+1F4A9 as the pair D83D DCA9 encoded as two 3-byte sequences
C12_Witness ==
    /\ session = "cesu8enc" /\ phase = "ended"
    /\ input = << 55357, 56489 >>
    /\ out = Cesu8Scenario


\* the scenario stream has been decoded by the little-endian decoder in
\* writes that each ended on a group boundary
Utf32ScenarioDecoded ==
    /\ session = "utf32dec" /\ phase = "ended" /\ isLE /\ ~carried
    /\ input = Utf32Scenario

\* C13 as stated: the core UTF-32LE decoder gives one replacement character
\* for the group FF FE 00 00, followed by 'A' and 'B'.
C13_BomGroupReplaced ==
    Utf32ScenarioDecoded => out = << BadChar, 65, 66 >>

\* C13 amended: the core UTF-32LE decoder reads FF FE 00 00 as the scalar
\* U+FEFF and gives the code unit FEFF for it, followed by 'A' and 'B'.
C13_BomGroupDecoded ==
    Utf32ScenarioDecoded => out = << 65279, 65, 66 >>

C13_Witness ==
    Utf32ScenarioDecoded /\ out = << 65279, 65, 66 >>


\* byteLength(s) and the number of bytes write(s) returns, for the next text s
\* the session can be given in the current state; a write that throws returns
\* nothing and is left out.
NextWriteWithinByteLength(s) ==
    CASE session = "base64enc" ->
           InternalEncoderBase64_byteLength(s)
               >= Len(InternalEncoderBase64_write(prevStr, s).res)
      [] session = "cesu8enc" ->
           InternalEncoderCesu8_byteLength(s) >= Len(InternalEncoderCesu8_write(s))
      [] session = "utf32enc" ->
           LET w == Utf32Encoder_write(isLE, highSurrogate, s)
           IN  w.threw \/ Utf32Encoder_byteLength(s) >= Len(w.res)
      [] OTHER -> TRUE

\* C14: in every state of an encoder session reached by earlier writes, for
\* every text s, byteLength(s) is at least the number of bytes the next
\* write(s) returns.
C14_ByteLengthUpperBound ==
    (session \in {"base64enc", "cesu8enc", "utf32enc"} /\ phase = "open") =>
        \A n \in 0..Rest : NextWriteWithinByteLength(Chunk(n))


\* What the replacement rule gives for one 4-byte group g, stated on the bytes
\* of the group from the most significant (b3) to the least (b0): the value is
\* negative iff the top bit of b3 is set, and above 0x10FFFF iff b3 is in
\* 1..127 or b3 = 0 and b2 > 0x10.
GroupOutput(le, g) ==
    LET b3 == IF le THEN g[4] ELSE g[1]
        b2 == IF le THEN g[3] ELSE g[2]
        b1 == IF le THEN g[2] ELSE g[3]
        b0 == IF le THEN g[1] ELSE g[4]
        cp == b2 * 65536 + b1 * 256 + b0
    IN  IF b3 >= 128 \/ b3 > 0 \/ b2 > 16 THEN << BadChar >>
        ELSE IF cp >= 65536
             THEN << 55296 + ((cp - 65536) \div 1024), 56320 + ((cp - 65536) % 1024) >>
             ELSE << cp >>

RECURSIVE GroupsOutput(_, _)
\* the outputs of the complete groups of src, in the order of the groups
GroupsOutput(le, src) ==
    IF Len(src) < 4 THEN << >>
    ELSE GroupOutput(le, SubSeq(src, 1, 4)) \o GroupsOutput(le, SubSeq(src, 5, Len(src)))

\* C15: a write on a UTF-32 decoder whose overflow buffer is empty returns,
\* for each complete 4-byte group of the chunk in order, the replacement
\* character if the signed value is negative or above 0x10FFFF, the surrogate
\* pair if it is 0x10000 or more, and the value as one code unit otherwise.
C15_Utf32ReplacementRule ==
    [][(session = "utf32dec" /\ phase' = "open" /\ overflow = << >>) =>
           out' = out \o GroupsOutput(isLE, SubSeq(input, pos + 1, pos'))]_vars

C15_Witness ==
    /\ session = "utf32dec" /\ phase = "open" /\ ~carried
    /\ input = << 255, 255, 255, 255 >> /\ pos = 4 /\ out = << BadChar >>


RECURSIVE CodePoints(_)
\* the number of code points of a text: a high surrogate followed by a low
\* surrogate is one, every other code unit is one.  Utf32Bytes holds no byte
\* DC..DF, so no group decodes to a lone low surrogate and two groups never
\* read as one pair.
CodePoints(u) ==
    IF u = << >> THEN 0
    ELSE IF Len(u) >= 2 /\ isHighSurrogate(u[1]) /\ isLowSurrogate(u[2])
         THEN 1 + CodePoints(SubSeq(u, 3, Len(u)))
         ELSE 1 + CodePoints(Tail(u))

\* a step of the UTF-32 decoder session: a write that brings the bytes
\* received from pos to pos' writes one code point per group completed, and
\* end() returns nothing and empties the overflow buffer
Utf32DecoderStep ==
    session = "utf32dec" =>
        IF phase' = "open"
        THEN LET w == Utf32Decoder_write(isLE, overflow, SubSeq(input, pos + 1, pos'))
             IN  /\ w.calls = (pos' \div 4) - (pos \div 4)
                 /\ CodePoints(w.res) = w.calls
                 /\ Len(overflow') = pos' % 4
        ELSE out' = out /\ overflow' = << >>

\* C16: end() of the UTF-32 decoder returns nothing and empties the overflow
\* buffer, so the trailing 1..3 bytes are dropped without a replacement; under
\* any chunking a stream of n bytes gives floor(n/4) code points in all.
C16_Utf32Truncation ==
    /\ [][Utf32DecoderStep]_vars
    /\ []((session = "utf32dec" /\ phase = "ended") =>
             /\ overflow = << >>
             /\ CodePoints(out) = Len(input) \div 4)

C16_Witness ==
    /\ session = "utf32dec" /\ phase = "ended" /\ carried /\ isLE
    /\ input = << 1, 0, 0, 0, 255 >> /\ out = << 1 >> /\ overflow = << >>


\* the length of the sequence a leading byte opens; 0 for a byte that opens none
SequenceLength(b) ==
    IF b < 128 THEN 1
    ELSE IF b >= 192 /\ b < 224 THEN 2
    ELSE IF b >= 224 /\ b < 240 THEN 3
    ELSE 0

IsContinuation(b) == b >= 128 /\ b < 192

RECURSIVE CompleteSequences(_)
\* buf is a concatenation of complete sequences: each leading byte is followed
\* by as many continuation bytes as it announces
CompleteSequences(buf) ==
    \/ buf = << >>
    \/ LET n == SequenceLength(buf[1])
       IN  /\ n > 0 /\ Len(buf) >= n
           /\ \A k \in 2..n : IsContinuation(buf[k])
           /\ CompleteSequences(SubSeq(buf, n + 1, Len(buf)))

\* what the overlong rule gives for one complete sequence
SequenceOutput(seq) ==
    IF Len(seq) = 1 THEN << seq[1] >>
    ELSE IF Len(seq) = 2
         THEN LET v == (seq[1] - 192) * 64 + (seq[2] - 128)
              IN  IF v >= 1 /\ v <= 127 THEN << BadChar >> ELSE << v >>
         ELSE LET v == (seq[1] - 224) * 4096 + (seq[2] - 128) * 64 + (seq[3] - 128)
              IN  IF v < 2048 THEN << BadChar >> ELSE << v >>

RECURSIVE SequencesOutput(_)
SequencesOutput(buf) ==
    IF buf = << >> THEN << >>
    ELSE LET n == SequenceLength(buf[1])
         IN  SequenceOutput(SubSeq(buf, 1, n)) \o SequencesOutput(SubSeq(buf, n + 1, Len(buf)))

\* C17: of the completed sequences the CESU-8 decoder receives, a two-byte
\* sequence of value 1..0x7F and a three-byte sequence of value below 0x800
\* give one replacement character each, C0 80 gives U+0000, and every other
\* one gives its value as one code unit.
C17_Cesu8OverlongCheck ==
    (session = "cesu8dec" /\ phase = "ended" /\ CompleteSequences(input)) =>
        out = SequencesOutput(input)

C17_Witness ==
    /\ session = "cesu8dec" /\ phase = "ended" /\ carried
    /\ input = << 192, 128, 192, 160 >> /\ out = << 0, BadChar >>


\* what a leading byte b gives when it starts on no open sequence: an ASCII
\* byte is output, F0..FF is replaced, C0..EF opens a sequence and gives nothing
FreshLeadOutput(b) ==
    IF b < 128 THEN << b >>
    ELSE IF b >= 240 THEN << BadChar >>
    ELSE << >>

\* a step of the CESU-8 decoder session on malformed input: a write of the
\* one byte b, or end()
Cesu8MalformedStep ==
    session = "cesu8dec" =>
        /\ (phase' = "open" /\ pos' = pos + 1) =>
              LET b == input[pos + 1] IN
              /\ (contBytes > 0 /\ ~IsContinuation(b)) =>
                    /\ out' = (out \o << BadChar >>) \o FreshLeadOutput(b)
                    /\ contBytes' = (IF SequenceLength(b) > 1
                                     THEN SequenceLength(b) - 1 ELSE 0)
              /\ (contBytes = 0 /\ IsContinuation(b)) =>
                    out' = out \o << BadChar >> /\ contBytes' = 0
              /\ (contBytes = 0 /\ b >= 240) =>
                    out' = out \o << BadChar >> /\ contBytes' = 0
        /\ (phase = "open" /\ phase' = "ended") =>
              out' = out \o (IF contBytes > 0 THEN << BadChar >> ELSE << >>)

\* C18: in the CESU-8 decoder a sequence interrupted by a non-continuation
\* byte gives one replacement and the byte is then taken as a fresh leading
\* byte; a continuation byte with no sequence open gives one replacement; a
\* leading byte F0..FF gives one replacement and opens no sequence, so
\* F0 9F 92 A9 gives four; end() gives one replacement iff a sequence is open.
C18_Cesu8MalformedAccounting ==
    /\ [][Cesu8MalformedStep]_vars
    /\ []((session = "cesu8dec" /\ phase = "ended" /\ input = Cesu8FourByteScenario) =>
             out = << BadChar, BadChar, BadChar, BadChar >>)

C18_Witness ==
    /\ session = "cesu8dec" /\ phase = "ended" /\ input = Cesu8FourByteScenario
    /\ out = << BadChar, BadChar, BadChar, BadChar >>


\* the auto decoder before and after the choice of its delegate
AutoLifecycleState ==
    session = "utf32auto" =>
        /\ decoder = "null" =>
              /\ phase = "open"
              /\ out = << >>
              /\ initialBufsLen < 32
              /\ initialBufsLen = pos
              /\ Flatten(initialBufs) = SubSeq(input, 1, pos)
        /\ decoder # "null" =>
              /\ decoder \in {"utf-32le", "utf-32be"}
              /\ initialBufs = << >>
              /\ initialBufsLen = 0

\* a step of the auto decoder session
AutoLifecycleStep ==
    session = "utf32auto" =>
        \* no delegate yet: a write that stays below 32 bytes returns nothing,
        \* any other write and end() choose the delegate
        /\ (decoder = "null" /\ phase' = "open" /\ pos' < 32) =>
              decoder' = "null" /\ out' = out
        /\ (decoder = "null" /\ (pos' >= 32 \/ phase' = "ended")) =>
              decoder' # "null"
        \* the choice replays what was buffered, in arrival order
        /\ (AutoChooses /\ aligned') =>
              out' = Utf32DecodeWhole(getDecoderIsLE(decoder'), SubSeq(input, 1, pos'))
        \* after the choice the delegate stays and takes every write
        /\ decoder # "null" =>
              /\ decoder' = decoder
              /\ phase' = "open" =>
                    LET w == Utf32Decoder_write(getDecoderIsLE(decoder), overflow,
                                                SubSeq(input, pos + 1, pos'))
                    IN  out' = out \o w.res /\ overflow' = w.overflow

\* C19: while the auto decoder has no delegate every write returns nothing and
\* fewer than 32 bytes are buffered; the delegate is chosen once, by the first
\* write that brings the buffered bytes to 32 or more, or by end(); the choice
\* replays the buffered chunks in arrival order and clears the initial buffer;
\* from then on the delegate does not change, the initial buffer stays empty
\* and every write goes straight to the delegate.
C19_AutoLifecycle ==
    /\ [] AutoLifecycleState
    /\ [][AutoLifecycleStep]_vars

\* a stream of 12 bytes: the writes returned nothing, end() chose the
\* delegate, replayed the three groups and cleared the initial buffer
C19_Witness ==
    /\ session = "utf32auto" /\ phase = "ended" /\ aligned
    /\ input = Repeat(<< 0, 0, 0, 0 >>, 2) \o << 65, 0, 0, 0 >>
    /\ decoder = "utf-32le" /\ initialBufs = << >> /\ initialBufsLen = 0
    /\ out = << 0, 0, 65 >>


\* the complete groups detection looks at: at most the first DetectCap
GroupsSeen(b) ==
    [k \in 1..Min(DetectCap, Len(b) \div 4) |-> SubSeq(b, 4 * k - 3, 4 * k)]

\* the group read in the given byte order is not a scalar value: its top byte
\* is not 0 or its second byte is above 0x10
InvalidAs(le, g) ==
    IF le THEN g[4] # 0 \/ g[3] > 16 ELSE g[1] # 0 \/ g[2] > 16

\* the group read in the given byte order is a BMP character other than U+0000
BmpCharAs(le, g) ==
    IF le THEN g[4] = 0 /\ g[3] = 0 /\ (g[2] # 0 \/ g[1] # 0)
          ELSE g[1] = 0 /\ g[2] = 0 /\ (g[3] # 0 \/ g[4] # 0)

\* BMP-char count minus invalid count
Score(le, gs) ==
    Cardinality({k \in DOMAIN gs : BmpCharAs(le, gs[k])})
        - Cardinality({k \in DOMAIN gs : InvalidAs(le, gs[k])})

DetectionRule(b, dflt) ==
    LET gs == GroupsSeen(b)
    IN  IF Len(gs) > 0 /\ gs[1] = << 255, 254, 0, 0 >> THEN "utf-32le"
        ELSE IF Len(gs) > 0 /\ gs[1] = << 0, 0, 254, 255 >> THEN "utf-32be"
        ELSE IF Score(FALSE, gs) > Score(TRUE, gs) THEN "utf-32be"
        ELSE IF Score(TRUE, gs) > Score(FALSE, gs) THEN "utf-32le"
        ELSE IF dflt # "" THEN dflt
        ELSE "utf-32le"

\* C20: detectEncoding regroups the bytes of the buffers in fours across buffer
\* boundaries; a first group FF FE 00 00 gives utf-32le and 00 00 FE FF gives
\* utf-32be whatever follows and whatever defaultEncoding is; otherwise, over
\* at most the first 100 complete groups, the byte order with the strictly
\* greater score wins, and a tie gives defaultEncoding if supplied, else utf-32le.
C20_DetectionRule ==
    (session = "detect" /\ phase = "ended") =>
        /\ Flatten(initialBufs) = input
        /\ decoder = DetectionRule(input, defaultEncoding)

\* 100 zero groups then one big-endian 'A', split inside a group: the 101st
\* group is not looked at and the tie gives the default
C20_Witness ==
    /\ session = "detect" /\ phase = "ended" /\ ~aligned
    /\ input = Repeat(<< 0, 0, 0, 0 >>, DetectCap) \o << 0, 0, 0, 65 >>
    /\ Len(initialBufs) = 2
    /\ defaultEncoding = "" /\ decoder = "utf-32le"


\* the decoder replaced the group: it returned the replacement character.
\* GroupBytes holds no byte FD, so no group is the encoding of U+FFFD itself.
GroupReplaced == out = << BadChar >>

\* C21: for every 4-byte group b0..b3 the detector counts it as invalid for
\* big-endian, which it does iff b0 # 0 or b1 > 0x10, exactly when the
\* UTF-32BE decoder replaces it, and as invalid for little-endian, which it
\* does iff b3 # 0 or b2 > 0x10, exactly when the UTF-32LE decoder replaces it.
C21_DetectorAgreesWithDecoders ==
    (session = "group" /\ phase = "ended") =>
        /\ counters.invalidBE = 1 <=> (input[1] # 0 \/ input[2] > 16)
        /\ counters.invalidLE = 1 <=> (input[4] # 0 \/ input[3] > 16)
        /\ counters.invalidBE \in {0, 1} /\ counters.invalidLE \in {0, 1}
        /\ ~isLE => (counters.invalidBE = 1 <=> GroupReplaced)
        /\ isLE => (counters.invalidLE = 1 <=> GroupReplaced)

\* 00 10 FF FF is U+10FFFF read big-endian: not counted, decoded to a pair
C21_Witness ==
    /\ session = "group" /\ phase = "ended" /\ ~isLE
    /\ input = << 0, 16, 255, 255 >>
    /\ counters.invalidBE = 0 /\ counters.invalidLE = 1
    /\ out = << 56319, 57343 >>

====
